---- MODULE Spec2Model ----
(***************************************************************************)
(* richfetch: a "fetch"-style system report.                               *)
(*                                                                         *)
(* Two programs are modelled: the rich variant (richfetch.py) and the      *)
(* minimal variant (fetch.py).  Each is a straight-line run: collect the   *)
(* metrics one after the other, build the display dict, print it.  The     *)
(* host (sensors, battery, environment, network) is the nondeterministic   *)
(* environment: every read draws its outcome from a set of samples.        *)
(*                                                                         *)
(* Strings are TLA+ strings, built the way the f-strings build them.       *)
(* Glyphs of the private-use area are written by code point ("U+F415").    *)
(***************************************************************************)
EXTENDS Integers, Sequences, FiniteSets, TLC

VARIABLES
    pc,             \* position of the run in get_system_info / main
    variant,        \* "rich" (richfetch.py) or "minimal" (fetch.py)
    color_enabled,  \* whether termcolor emits escape codes in this terminal
    args,           \* the parsed command-line flags (rich variant)
    locals,         \* the local variables of get_system_info
    display,        \* the dict get_system_info returns, in insertion order
    output,         \* the lines written to standard output so far
    reads,          \* how many times each host facility was called
    sock,           \* the socket of the private-IP lookup
    exc,            \* the exception that ended the run, if any
    arg,            \* input of the pure-function specifications
    result          \* their results

vars == <<pc, variant, color_enabled, args, locals, display, output, reads,
          sock, exc, arg, result>>

-----------------------------------------------------------------------------
(* Bounds and samples of the environment *)

MaxReading == 110      \* readings 0..MaxReading are classified
MaxSeconds == 14000    \* elapsed seconds 0..MaxSeconds are formatted

\* Python's None; an f-string renders it as the text "None".
None == "None"
\* A local variable that has not been assigned yet.
Unbound == "<unbound>"

UsageSamples == {59, 60, 80}
UptimeSamples == {13510}
EnvSamples == {None, "", "gnome"}
SessionTypeSamples == {None, "x11"}
PrettyNames == {"Arch Linux", "Red Hat Enterprise Linux", "Plan 9"}

\* psutil.sensors_temperatures(): sensor name -> list of readings (current).
TemperatureSamples ==
    { [s \in {} |-> <<>>],
      ("nvme" :> <<45>>),
      ("acpitz" :> <<59>>),
      ("coretemp" :> <<60>>) @@ ("acpitz" :> <<41>>),
      ("coretemp" :> <<>>) @@ ("asus-nb" :> <<70, 71>>) }

\* psutil.sensors_battery(): None, or a reading (percent in tenths).
NoBattery == [percent10 |-> -1, power_plugged |-> None]
BatterySamples ==
    { NoBattery,
      [percent10 |-> 865, power_plugged |-> "True"],
      [percent10 |-> 865, power_plugged |-> "False"] }

-----------------------------------------------------------------------------
(* Python helpers *)

\* Truth value of an optional string.
Truthy(x) == x # None /\ x # "" /\ x # "False"

\* a or b
Or(a, b) == IF Truthy(a) THEN a ELSE b

\* round(x) of a float given in tenths: round half to even.
round(t10) ==
    LET q == t10 \div 10
        r == t10 % 10
    IN  IF r < 5 THEN q
        ELSE IF r > 5 THEN q + 1
        ELSE IF q % 2 = 0 THEN q ELSE q + 1

\* termcolor.colored(text, color): the text wrapped in the color's escape
\* codes, or the text itself where colors are switched off.
colored(text, color) ==
    IF color_enabled THEN "<" \o color \o ">" \o text \o "<reset>" ELSE text

\* An insertion-ordered dict is a sequence of <<key, value>> pairs.
\* d[k] = v: an existing key keeps its place and takes the new value.
DictSet(d, k, v) ==
    IF \E i \in DOMAIN d : d[i][1] = k
    THEN [i \in DOMAIN d |-> IF d[i][1] = k THEN <<k, v>> ELSE d[i]]
    ELSE Append(d, <<k, v>>)

\* d.update(items), and the dict literal {k1: v1, ...}, item by item.
RECURSIVE DictUpdate(_, _)
DictUpdate(d, items) ==
    IF items = <<>> THEN d
    ELSE DictUpdate(DictSet(d, Head(items)[1], Head(items)[2]), Tail(items))

\* print(f"  {key}  {value}")
Line(item) == "  " \o item[1] \o "  " \o item[2]

-----------------------------------------------------------------------------
(* richfetch.py: pure functions *)


\* Mutant: the temperature classifier sharing the usage breakpoints.
color_cpu_temp_unified(temp) ==
    IF temp < 60 THEN "green"
    ELSE IF temp < 80 THEN "yellow"
    ELSE "red"

color_cpu_temp(temp) ==
    IF temp < 60 THEN "green"
    ELSE IF temp < 70 THEN "yellow"
    ELSE "red"


\* Mutant: the breakpoints taken into the lower class.
color_usage_percent_inclusive(percent) ==
    IF percent <= 60 THEN "green"
    ELSE IF percent <= 80 THEN "yellow"
    ELSE "red"

color_usage_percent(percent) ==
    IF percent < 60 THEN "green"
    ELSE IF percent < 80 THEN "yellow"
    ELSE "red"

sensors == <<"coretemp", "k10temp", "cpu-thermal", "lm_sensors", "asus-nb",
             "lm75", "acpitz">>

\* The first sensor of the list with a non-empty reading list; <<>> is None.
get_cpu_temperature(all_temperatures) ==
    LET hits == { i \in DOMAIN sensors :
                    /\ sensors[i] \in DOMAIN all_temperatures
                    /\ all_temperatures[sensors[i]] # <<>> }
    IN  IF hits = {} THEN <<>>
        ELSE LET first == CHOOSE i \in hits : \A j \in hits : i <= j
             IN  <<all_temperatures[sensors[first]][1]>>

\* logo_dict: <<name, glyph, color>>
logo_dict ==
    << <<"Alpine Linux", "U+F300", "blue">>,
       <<"Arch Linux", "U+F08C7", "blue">>,
       <<"Artix Linux", "U+F31F", "blue">>,
       <<"CentOS Stream 9", "U+EF3D", "yellow">>,
       <<"Debian GNU/Linux 11 Bullseye", "U+F306", "red">>,
       <<"Deepin", "U+F321", "blue">>,
       <<"Elementary OS 7: Loki", "U+F309", "blue">>,
       <<"EndeavourOS", "U+F322", "magenta">>,
       <<"Fedora Linux", "U+F30A", "blue">>,
       <<"FreeBSD", "U+F28F", "red">>,
       <<"Parabola GNU/Linux-libre", "U+F340", "blue">>,
       <<"Garuda Linux", "U+F337", "yellow">>,
       <<"Gentoo Linux", "U+F08E8", "white">>,
       <<"Hyperbola GNU/Linux-libre", "U+F33A", "blue">>,
       <<"Kali Linux", "U+F327", "blue">>,
       <<"KDE Neon", "U+F331", "blue">>,
       <<"Kubuntu", "U+F333", "blue">>,
       <<"Linux Mint 21 Cinnamon", "U+F08ED", "green">>,
       <<"Lubuntu", "U+F363", "blue">>,
       <<"macOS", "U+E711", "white">>,
       <<"Mageia", "U+F310", "blue">>,
       <<"Manjaro Linux", "U+F312", "green">>,
       <<"MX Linux", "U+F33F", "white">>,
       <<"NixOS", "U+F313", "blue">>,
       <<"openSUSE Leap 15.4", "U+F314", "green">>,
       <<"openSUSE Tumbleweed", "U+F314", "green">>,
       <<"Parrot Security OS", "U+F329", "green">>,
       <<"Pop!_OS 22.04", "U+F32A", "blue">>,
       <<"PostmarketOS", "U+F374", "green">>,
       <<"Puppy Linux", "U+F341", "white">>,
       <<"Qubes OS", "U+F342", "blue">>,
       <<"Raspberry Pi OS", "U+EF5C", "red">>,
       <<"Red Hat Enterprise Linux", "Red Hat Enterprise Linux", "red">>,
       <<"Slackware Linux", "U+F318", "blue">>,
       <<"Solus", "U+F32D", "blue">>,
       <<"Tails", "U+F343", "magenta">>,
       <<"Ubuntu 22.04 LTS", "U+E73A", "yellow">>,
       <<"Ubuntu Budgie", "U+F320", "magenta">>,
       <<"Vanilla OS", "U+F366", "yellow">>,
       <<"Void Linux", "U+F32E", "green">>,
       <<"Windows", "U+E70F", "blue">>,
       <<"Xubuntu", "U+F368", "blue">>,
       <<"Zorin OS", "U+F32F", "blue">> >>

get_os_logo(os_name) ==
    IF \E i \in DOMAIN logo_dict : logo_dict[i][1] = os_name
    THEN LET e == logo_dict[CHOOSE i \in DOMAIN logo_dict :
                                logo_dict[i][1] = os_name]
         IN  colored(e[2], e[3])
    ELSE colored("U+E712", "yellow")

dynamic_color_line ==
    LET colors == <<"red", "yellow", "green", "blue", "cyan", "magenta">>
        symbols == <<"U+F169D", "U+F169F", "U+F16A3", "U+F06A9", "U+F1719",
                     "U+F16A5">>
        F[i \in 0..6] ==
            IF i = 0 THEN ""
            ELSE F[i - 1] \o colored(symbols[i], colors[i]) \o " "
    IN  F[6]

\* f"{uptime_hours} hrs, {uptime_minutes} mins" of the rich variant
rich_uptime_hours(total_seconds) == total_seconds \div 3600

\* Mutant: the minutes rounded to the nearest minute.
rich_uptime_minutes_rounded(total_seconds) ==
    ((total_seconds % 3600) + 30) \div 60

rich_uptime_minutes(total_seconds) == (total_seconds % 3600) \div 60
rich_uptime_str(total_seconds) ==
    ToString(rich_uptime_hours(total_seconds)) \o " hrs, "
        \o ToString(rich_uptime_minutes(total_seconds)) \o " mins"

\* f"{used:.2f} / {total:.2f} GB ({percent:.2f}%)" for a 500 GiB volume
usage_str(percent) ==
    ToString(5 * percent) \o ".00 / 500.00 GB (" \o ToString(percent)
        \o ".00%)"

-----------------------------------------------------------------------------
(* The run: state shared by both variants *)

Collectors ==
    {"boot_time", "DESKTOP_SESSION", "XDG_SESSION_TYPE", "cpu_info",
     "cpu_percent", "sensors_temperatures", "sensors_battery", "private_ip",
     "public_ip", "disk_usage", "virtual_memory"}

LocalNames ==
    {"os_name", "os_logo", "uptime_str", "wm", "cpu_name", "cpu_per",
     "cpu_usage_color", "temp_str", "temp_color", "battery", "plugged",
     "battery_logo", "private_ip", "public_ip", "disk_usage_str",
     "disk_usage_color", "ram_usage_str", "ram_usage_color",
     "local_address", "public_address"}

username == "user"
hostname == "host"
brand_raw == "Intel(R) Core(TM) i7"

Called(c) == [reads EXCEPT ![c] = @ + 1]

Init ==
    /\ variant \in {"rich", "minimal"}
    /\ pc = IF variant = "rich" THEN "args" ELSE "m_uptime"
    /\ color_enabled \in BOOLEAN
    /\ args = [show_public_ip |-> FALSE, show_private_ip |-> FALSE]
    /\ locals = [n \in LocalNames |-> Unbound]
    /\ display = <<>>
    /\ output = <<>>
    /\ reads = [c \in Collectors |-> 0]
    /\ sock = "none"
    /\ exc = "none"
    /\ arg = 0
    /\ result = <<>>

-----------------------------------------------------------------------------
(* richfetch.py: get_system_info and main *)

\* parser.parse_args()
RichArgs ==
    /\ pc = "args"
    /\ \E pub \in BOOLEAN, priv \in BOOLEAN :
          args' = [show_public_ip |-> pub, show_private_ip |-> priv]
    /\ pc' = "os"
    /\ UNCHANGED <<variant, color_enabled, locals, display, output, reads,
                   sock, exc, arg, result>>

\* OS name and logo
RichOS ==
    /\ pc = "os"
    /\ \E os_type \in {"Darwin", "Windows", "Linux"} :
          \/ /\ os_type = "Darwin"
             /\ locals' = [locals EXCEPT !.os_name = "macos 14.5",
                                         !.os_logo = get_os_logo("macOS")]
          \/ /\ os_type = "Windows"
             /\ locals' = [locals EXCEPT !.os_name = "Windows ('10', '', '')",
                                         !.os_logo = get_os_logo("Windows")]
          \/ /\ os_type = "Linux"
             /\ \E pretty \in PrettyNames :
                   locals' = [locals EXCEPT !.os_name = pretty,
                                            !.os_logo = get_os_logo(pretty)]
    /\ pc' = "uptime"
    /\ UNCHANGED <<variant, color_enabled, args, display, output, reads, sock,
                   exc, arg, result>>

\* Uptime
RichUptime ==
    /\ pc = "uptime"
    /\ \E total_seconds \in UptimeSamples :
          locals' = [locals EXCEPT !.uptime_str = rich_uptime_str(total_seconds)]
    /\ reads' = Called("boot_time")
    /\ pc' = "wm"
    /\ UNCHANGED <<variant, color_enabled, args, display, output, sock, exc,
                   arg, result>>

\* wm = os.environ.get("DESKTOP_SESSION") or os.environ.get("XDG_SESSION_TYPE")
RichWM ==
    /\ pc = "wm"
    /\ \E desktop \in EnvSamples, session \in SessionTypeSamples :
          /\ locals' = [locals EXCEPT !.wm = Or(desktop, session)]
          /\ reads' = [reads EXCEPT
                          !["DESKTOP_SESSION"] = @ + 1,
                          !["XDG_SESSION_TYPE"] =
                              IF Truthy(desktop) THEN @ ELSE @ + 1]
    /\ pc' = "cpu"
    /\ UNCHANGED <<variant, color_enabled, args, display, output, sock, exc,
                   arg, result>>

\* CPU name and load
RichCPU ==
    /\ pc = "cpu"
    /\ \E cpu_per \in UsageSamples :
          locals' = [locals EXCEPT
                        !.cpu_name = brand_raw,
                        !.cpu_per = ToString(cpu_per) \o ".0",
                        !.cpu_usage_color = color_usage_percent(cpu_per)]
    /\ reads' = [reads EXCEPT !["cpu_info"] = @ + 1, !["cpu_percent"] = @ + 1]
    /\ pc' = "temp"
    /\ UNCHANGED <<variant, color_enabled, args, display, output, sock, exc,
                   arg, result>>

\* temp = get_cpu_temperature().  psutil defines sensors_temperatures only on
\* Linux and FreeBSD: elsewhere the call raises AttributeError, which nothing
\* catches.
RichTemp ==
    /\ pc = "temp"
    /\ reads' = Called("sensors_temperatures")
    /\ \/ /\ pc' = "crashed"
          /\ exc' = "AttributeError"
          /\ UNCHANGED locals
       \/ /\ \E all_temperatures \in TemperatureSamples :
                LET temp == get_cpu_temperature(all_temperatures)
                IN  locals' =
                       IF temp # <<>>
                       THEN [locals EXCEPT
                                !.temp_str = ToString(temp[1]) \o "U+F0504",
                                !.temp_color = color_cpu_temp(temp[1])]
                       ELSE [locals EXCEPT !.temp_str = None,
                                           !.temp_color = "red"]
          /\ pc' = "battery"
          /\ UNCHANGED exc
    /\ UNCHANGED <<variant, color_enabled, args, display, output, sock, arg,
                   result>>

\* battery = f"{round(psutil.sensors_battery().percent)}%"
RichBattery ==
    /\ pc = "battery"
    /\ \E reading \in BatterySamples :
          locals' = [locals EXCEPT !.battery =
                        IF reading = NoBattery THEN None
                        ELSE ToString(round(reading.percent10)) \o "%"]
    /\ reads' = Called("sensors_battery")
    /\ pc' = "plugged"
    /\ UNCHANGED <<variant, color_enabled, args, display, output, sock, exc,
                   arg, result>>

\* plugged = psutil.sensors_battery().power_plugged; then battery_logo
RichPlugged ==
    /\ pc = "plugged"
    /\ \E reading \in BatterySamples :
          LET plugged == IF reading = NoBattery THEN None
                         ELSE reading.power_plugged
          IN  locals' = [locals EXCEPT
                            !.plugged = plugged,
                            !.battery_logo = IF Truthy(plugged)
                                             THEN "U+F0084" ELSE "U+F12A3"]
    /\ reads' = Called("sensors_battery")
    /\ pc' = "private_ip"
    /\ UNCHANGED <<variant, color_enabled, args, display, output, sock, exc,
                   arg, result>>

\* get_private_ip(): <<ip or None, socket afterwards, lines printed>>.
\* s.close() runs on the success path only.  When socket() raises there is
\* no socket; when connect() or getsockname() raises the socket is left to
\* the garbage collector, which may or may not have finalized it when the
\* function returns.
get_private_ip_outcomes ==
    { <<"192.168.1.10", "closed", <<>> >>,
      <<None, "none", <<"Error retrieving local IP address: <e>">> >>,
      <<None, "open", <<"Error retrieving local IP address: <e>">> >>,
      <<None, "finalized", <<"Error retrieving local IP address: <e>">> >> }

\* get_public_ip(): <<ip or None, lines printed>>
get_public_ip_outcomes ==
    { <<"203.0.113.7", <<>> >>,
      <<None, <<"Error retrieving public IP address: <e>">> >>,
      <<None, <<"Unexpected error: <e>">> >> }

\* private_ip = None; public_ip = None; if args.show_private_ip: ...
RichPrivateIP ==
    /\ pc = "private_ip"
    /\ IF args.show_private_ip
       THEN \E o \in get_private_ip_outcomes :
               /\ locals' = [locals EXCEPT !.private_ip = o[1],
                                           !.public_ip = None]
               /\ sock' = o[2]
               /\ output' = output \o o[3]
               /\ reads' = Called("private_ip")
       ELSE /\ locals' = [locals EXCEPT !.private_ip = None,
                                        !.public_ip = None]
            /\ UNCHANGED <<sock, output, reads>>
    /\ pc' = "public_ip"
    /\ UNCHANGED <<variant, color_enabled, args, display, exc, arg, result>>


\* Mutant: the public-IP lookup made whatever the flag says.
RichPublicIP_unconditional ==
    /\ pc = "public_ip"
    /\ \E o \in get_public_ip_outcomes :
          /\ locals' = [locals EXCEPT !.public_ip = o[1]]
          /\ output' = output \o o[2]
          /\ reads' = Called("public_ip")
    /\ pc' = "disk"
    /\ UNCHANGED <<variant, color_enabled, args, display, sock, exc, arg,
                   result>>

\* if args.show_public_ip: public_ip = get_public_ip()
RichPublicIP ==
    /\ pc = "public_ip"
    /\ IF args.show_public_ip
       THEN \E o \in get_public_ip_outcomes :
               /\ locals' = [locals EXCEPT !.public_ip = o[1]]
               /\ output' = output \o o[2]
               /\ reads' = Called("public_ip")
       ELSE UNCHANGED <<locals, output, reads>>
    /\ pc' = "disk"
    /\ UNCHANGED <<variant, color_enabled, args, display, sock, exc, arg,
                   result>>

\* Disk space
RichDisk ==
    /\ pc = "disk"
    /\ \E percent \in UsageSamples :
          locals' = [locals EXCEPT
                        !.disk_usage_str = usage_str(percent),
                        !.disk_usage_color = color_usage_percent(percent)]
    /\ reads' = Called("disk_usage")
    /\ pc' = "ram"
    /\ UNCHANGED <<variant, color_enabled, args, display, output, sock, exc,
                   arg, result>>

\* RAM space
RichRAM ==
    /\ pc = "ram"
    /\ \E percent \in UsageSamples :
          locals' = [locals EXCEPT
                        !.ram_usage_str = usage_str(percent),
                        !.ram_usage_color = color_usage_percent(percent)]
    /\ reads' = Called("virtual_memory")
    /\ pc' = "assemble"
    /\ UNCHANGED <<variant, color_enabled, args, display, output, sock, exc,
                   arg, result>>

\* The <<label, value>> pair the rich variant builds for an entry.
rich_entry(name, l) ==
    CASE name = "identity" ->
            <<colored("U+F415", "green"),
              colored(username \o "@" \o hostname, "green")>>
      [] name = "os" -> <<l.os_logo, l.os_name>>
      [] name = "cpu_name" -> <<colored("U+EC19", "blue"), l.cpu_name>>
      [] name = "cpu_load" ->
            <<colored("U+EC19", l.cpu_usage_color), l.cpu_per \o "%">>
      [] name = "temperature" -> <<colored("U+F2C9", l.temp_color), l.temp_str>>
      [] name = "battery" -> <<colored(l.battery_logo, "green"), l.battery>>
      [] name = "wm" -> <<colored("U+F0A07", "red"), l.wm>>
      [] name = "uptime" -> <<colored("U+F252", "magenta"), l.uptime_str>>
      [] name = "ram" ->
            <<colored("U+E266", l.ram_usage_color), l.ram_usage_str>>
      [] name = "disk" ->
            <<colored("U+F0C7", l.disk_usage_color), l.disk_usage_str>>
      [] name = "private_ip" -> <<colored("U+F0A69", "green"), l.private_ip>>
      [] name = "public_ip" -> <<colored("U+F0469", "green"), l.public_ip>>
      [] name = "legend" -> <<" ", dynamic_color_line>>


\* Mutant: the legend added before the two IP entries.
rich_assembled_legend_early(l) ==
    <<"identity", "os", "cpu_name", "cpu_load">>
    \o (IF l.temp_str # None THEN <<"temperature">> ELSE <<>>)
    \o (IF l.battery # None THEN <<"battery">> ELSE <<>>)
    \o <<"wm", "uptime", "ram", "disk", "legend">>
    \o (IF l.private_ip # None THEN <<"private_ip">> ELSE <<>>)
    \o (IF l.public_ip # None THEN <<"public_ip">> ELSE <<>>)

\* The names of the entries put into display, in the order of the updates.
rich_assembled(l) ==
    <<"identity", "os", "cpu_name", "cpu_load">>
    \o (IF l.temp_str # None THEN <<"temperature">> ELSE <<>>)
    \o (IF l.battery # None THEN <<"battery">> ELSE <<>>)
    \o <<"wm", "uptime", "ram", "disk">>
    \o (IF l.private_ip # None THEN <<"private_ip">> ELSE <<>>)
    \o (IF l.public_ip # None THEN <<"public_ip">> ELSE <<>>)
    \o <<"legend">>

\* display = {...}; display.update(...); ...; return display
RichAssemble ==
    /\ pc = "assemble"
    /\ display' = DictUpdate(<<>>, [i \in DOMAIN rich_assembled(locals) |->
                                       rich_entry(rich_assembled(locals)[i],
                                                  locals)])
    /\ pc' = "main"
    /\ UNCHANGED <<variant, color_enabled, args, locals, output, reads, sock,
                   exc, arg, result>>

\* main(): print(); one line per item; print()
RichMain ==
    /\ pc = "main"
    /\ output' = output \o <<"">>
                        \o [i \in DOMAIN display |-> Line(display[i])]
                        \o <<"">>
    /\ pc' = "done"
    /\ UNCHANGED <<variant, color_enabled, args, locals, display, reads, sock,
                   exc, arg, result>>

RichNext ==
    \/ RichArgs \/ RichOS \/ RichUptime \/ RichWM \/ RichCPU \/ RichTemp
    \/ RichBattery \/ RichPlugged \/ RichPrivateIP \/ RichPublicIP
    \/ RichDisk \/ RichRAM \/ RichAssemble \/ RichMain

-----------------------------------------------------------------------------
(* fetch.py: get_system_info and the __main__ block *)

minimal_uptime_hours(total_seconds) == total_seconds \div 3600
minimal_uptime_minutes(total_seconds) == (total_seconds % 3600) \div 60
minimal_uptime_str(total_seconds) ==
    ToString(minimal_uptime_hours(total_seconds)) \o " hrs, "
        \o ToString(minimal_uptime_minutes(total_seconds)) \o " mins"

\* Username, hostname and uptime
MinimalUptime ==
    /\ pc = "m_uptime"
    /\ \E total_seconds \in UptimeSamples :
          locals' = [locals EXCEPT
                        !.uptime_str = minimal_uptime_str(total_seconds)]
    /\ reads' = Called("boot_time")
    /\ pc' = "m_wm"
    /\ UNCHANGED <<variant, color_enabled, args, display, output, sock, exc,
                   arg, result>>

MinimalWM ==
    /\ pc = "m_wm"
    /\ \E desktop \in EnvSamples, session \in SessionTypeSamples :
          /\ locals' = [locals EXCEPT !.wm = Or(desktop, session)]
          /\ reads' = [reads EXCEPT
                          !["DESKTOP_SESSION"] = @ + 1,
                          !["XDG_SESSION_TYPE"] =
                              IF Truthy(desktop) THEN @ ELSE @ + 1]
    /\ pc' = "m_cpu"
    /\ UNCHANGED <<variant, color_enabled, args, display, output, sock, exc,
                   arg, result>>

MinimalCPU ==
    /\ pc = "m_cpu"
    /\ \E cpu_per \in UsageSamples :
          locals' = [locals EXCEPT !.cpu_name = brand_raw,
                                   !.cpu_per = ToString(cpu_per) \o ".0"]
    /\ reads' = [reads EXCEPT !["cpu_info"] = @ + 1, !["cpu_percent"] = @ + 1]
    /\ pc' = "m_temp"
    /\ UNCHANGED <<variant, color_enabled, args, display, output, sock, exc,
                   arg, result>>

\* temp = psutil.sensors_temperatures()['coretemp'][0].current
\* Nothing catches the AttributeError of a host without the facility, the
\* KeyError of a host without the coretemp sensor or the IndexError of an
\* empty reading list.
MinimalTemp ==
    /\ pc = "m_temp"
    /\ reads' = Called("sensors_temperatures")
    /\ \/ \E all_temperatures \in TemperatureSamples :
             IF "coretemp" \notin DOMAIN all_temperatures
             THEN /\ pc' = "crashed"
                  /\ exc' = "KeyError"
                  /\ UNCHANGED locals
             ELSE IF all_temperatures["coretemp"] = <<>>
             THEN /\ pc' = "crashed"
                  /\ exc' = "IndexError"
                  /\ UNCHANGED locals
             ELSE /\ locals' = [locals EXCEPT !.temp_str =
                         ToString(all_temperatures["coretemp"][1])
                             \o "U+F0504"]
                  /\ pc' = "m_local"
                  /\ UNCHANGED exc
       \/ /\ pc' = "crashed"
          /\ exc' = "AttributeError"
          /\ UNCHANGED locals
    /\ UNCHANGED <<variant, color_enabled, args, display, output, sock, arg,
                   result>>

\* get_local_address(): <<ip or None, socket afterwards>>; s.close() runs on
\* the success path only, as in get_private_ip.
get_local_address_outcomes ==
    { <<"192.168.1.10", "closed">>,
      <<None, "none">>,
      <<None, "open">>,
      <<None, "finalized">> }

\* get_public_address(): ip or None
get_public_address_outcomes == {"203.0.113.7", None}

MinimalLocalAddress ==
    /\ pc = "m_local"
    /\ \E o \in get_local_address_outcomes :
          /\ locals' = [locals EXCEPT !.local_address = o[1]]
          /\ sock' = o[2]
    /\ reads' = Called("private_ip")
    /\ pc' = "m_public"
    /\ UNCHANGED <<variant, color_enabled, args, display, output, exc, arg,
                   result>>

MinimalPublicAddress ==
    /\ pc = "m_public"
    /\ \E o \in get_public_address_outcomes :
          locals' = [locals EXCEPT !.public_address = o]
    /\ reads' = Called("public_ip")
    /\ pc' = "m_disk"
    /\ UNCHANGED <<variant, color_enabled, args, display, output, sock, exc,
                   arg, result>>

MinimalDisk ==
    /\ pc = "m_disk"
    /\ \E percent \in UsageSamples :
          locals' = [locals EXCEPT !.disk_usage_str = usage_str(percent)]
    /\ reads' = Called("disk_usage")
    /\ pc' = "m_ram"
    /\ UNCHANGED <<variant, color_enabled, args, display, output, sock, exc,
                   arg, result>>

MinimalRAM ==
    /\ pc = "m_ram"
    /\ \E percent \in UsageSamples :
          locals' = [locals EXCEPT !.ram_usage_str = usage_str(percent)]
    /\ reads' = Called("virtual_memory")
    /\ pc' = "m_return"
    /\ UNCHANGED <<variant, color_enabled, args, display, output, sock, exc,
                   arg, result>>

\* The <<label, value>> pair the minimal variant builds for an entry.
minimal_entry(name, l) ==
    CASE name = "identity" ->
            <<colored("U+F415", "blue"),
              colored(username \o "@" \o hostname, "green")>>
      [] name = "cpu_name" -> <<colored("U+EC19", "blue"), l.cpu_name>>
      [] name = "cpu_load" -> <<colored("U+EC19", "blue"), l.cpu_per \o "%">>
      [] name = "temperature" -> <<colored("U+F2C9", "red"), l.temp_str>>
      [] name = "wm" -> <<colored("U+F0A07", "blue"), l.wm>>
      [] name = "uptime" -> <<colored("U+F252", "yellow"), l.uptime_str>>
      [] name = "ram" -> <<colored("U+E266", "red"), l.ram_usage_str>>
      [] name = "disk" -> <<colored("U+F0C7", "magenta"), l.disk_usage_str>>
      [] name = "private_ip" ->
            <<colored("U+F0A69", "yellow"), l.local_address>>
      [] name = "public_ip" ->
            <<colored("U+F0A69", "green"), l.public_address>>

\* The names of the entries of the dict literal, in its order.
minimal_assembled ==
    <<"identity", "cpu_name", "cpu_load", "temperature", "wm", "uptime",
      "ram", "disk", "private_ip", "public_ip">>

\* return {...}
MinimalReturn ==
    /\ pc = "m_return"
    /\ display' = DictUpdate(<<>>, [i \in DOMAIN minimal_assembled |->
                                       minimal_entry(minimal_assembled[i],
                                                     locals)])
    /\ pc' = "m_main"
    /\ UNCHANGED <<variant, color_enabled, args, locals, output, reads, sock,
                   exc, arg, result>>

\* print("\n", end=""); one line per item
MinimalMain ==
    /\ pc = "m_main"
    /\ output' = output \o <<"">>
                        \o [i \in DOMAIN display |-> Line(display[i])]
    /\ pc' = "done"
    /\ UNCHANGED <<variant, color_enabled, args, locals, display, reads, sock,
                   exc, arg, result>>

MinimalNext ==
    \/ MinimalUptime \/ MinimalWM \/ MinimalCPU \/ MinimalTemp
    \/ MinimalLocalAddress \/ MinimalPublicAddress \/ MinimalDisk
    \/ MinimalRAM \/ MinimalReturn \/ MinimalMain

Next == RichNext \/ MinimalNext

Spec == Init /\ [][Next]_vars

-----------------------------------------------------------------------------
(* The color classifiers, applied to every reading 0..MaxReading the way     *)
(* get_system_info applies them.                                            *)

ColorNames ==
    {"cpu_usage_color", "disk_usage_color", "ram_usage_color", "temp_color"}

Idle ==
    /\ variant = "rich"
    /\ color_enabled = TRUE
    /\ args = [show_public_ip |-> FALSE, show_private_ip |-> FALSE]
    /\ locals = [n \in LocalNames |-> Unbound]
    /\ display = <<>>
    /\ output = <<>>
    /\ reads = [c \in Collectors |-> 0]
    /\ sock = "none"
    /\ exc = "none"

InitColors ==
    /\ Idle
    /\ pc = "classify"
    /\ arg \in 0..MaxReading
    /\ result = [n \in ColorNames |-> Unbound]

Classified(name, color) ==
    /\ pc = "classify"
    /\ result[name] = Unbound
    /\ result' = [result EXCEPT ![name] = color]
    /\ UNCHANGED <<pc, variant, color_enabled, args, locals, display, output,
                   reads, sock, exc, arg>>

\* cpu_usage_color = color_usage_percent(cpu_per)
ColorCpuLoad == Classified("cpu_usage_color", color_usage_percent(arg))

\* disk_usage_color = color_usage_percent(disk_usage.percent)
ColorDisk == Classified("disk_usage_color", color_usage_percent(arg))

\* ram_usage_color = color_usage_percent(ram_usage.percent)
ColorRam == Classified("ram_usage_color", color_usage_percent(arg))

\* temp_color = color_cpu_temp(temp)
ColorTemp == Classified("temp_color", color_cpu_temp(arg))

NextColors == ColorCpuLoad \/ ColorDisk \/ ColorRam \/ ColorTemp

SpecColors == InitColors /\ [][NextColors]_vars

-----------------------------------------------------------------------------
(* The uptime computation of both variants, for every elapsed time          *)
(* 0..MaxSeconds.                                                           *)

InitUptime ==
    /\ Idle
    /\ pc = "format"
    /\ arg \in 0..MaxSeconds
    /\ result = [v \in {"rich", "minimal"} |->
                    [hours |-> -1, minutes |-> -1, str |-> Unbound]]

Formatted(v, hours, minutes, str) ==
    /\ pc = "format"
    /\ result[v].str = Unbound
    /\ result' = [result EXCEPT ![v] =
                     [hours |-> hours, minutes |-> minutes, str |-> str]]
    /\ UNCHANGED <<pc, variant, color_enabled, args, locals, display, output,
                   reads, sock, exc, arg>>

FormatUptimeRich ==
    Formatted("rich", rich_uptime_hours(arg), rich_uptime_minutes(arg),
              rich_uptime_str(arg))

FormatUptimeMinimal ==
    Formatted("minimal", minimal_uptime_hours(arg),
              minimal_uptime_minutes(arg), minimal_uptime_str(arg))

NextUptime == FormatUptimeRich \/ FormatUptimeMinimal

SpecUptime == InitUptime /\ [][NextUptime]_vars

-----------------------------------------------------------------------------
(* Properties *)

\* The error lines the two lookups of the rich variant print.
PrivateIpDiagnostics ==
    UNION { {o[3][i] : i \in DOMAIN o[3]} : o \in get_private_ip_outcomes }
PublicIpDiagnostics ==
    UNION { {o[2][i] : i \in DOMAIN o[2]} : o \in get_public_ip_outcomes }
Diagnostics == PrivateIpDiagnostics \cup PublicIpDiagnostics

\* The lines of the report: what the loop over the dict's items printed.
ReportLines ==
    SelectSeq(output, LAMBDA line : line # "" /\ line \notin Diagnostics)

Assembled ==
    IF variant = "rich" THEN rich_assembled(locals) ELSE minimal_assembled

Entry(name) ==
    IF variant = "rich" THEN rich_entry(name, locals)
    ELSE minimal_entry(name, locals)

Printed(name) == \E i \in DOMAIN output : output[i] = Line(Entry(name))

\* Whether the metric behind an optional entry was obtained.
Obtained(name) ==
    CASE name = "temperature" -> locals.temp_str # None
      [] name = "battery" -> locals.battery # None
      [] name = "wm" -> locals.wm # None
      [] name = "private_ip" -> locals.private_ip # None
      [] name = "public_ip" -> locals.public_ip # None

OptionalEntries == {"temperature", "battery", "wm", "private_ip", "public_ip"}

\* C1: in the report of the rich variant, an entry is printed if and only if
\* its metric was obtained (temperature, battery, session manager, private
\* IP, public IP).
C1_EntryIffObtained ==
    (pc = "done" /\ variant = "rich") =>
        \A name \in OptionalEntries : Printed(name) <=> Obtained(name)

\* C2: the failure of a collector never ends the run: no run of either
\* variant stops on an exception.
C2_CollectorFailureNotFatal == pc # "crashed" /\ exc = "none"

\* The label and the possible values of the two IP entries.
PrivateIpLines ==
    { Line(<<colored("U+F0A69", "green"), o[1]>>) :
        o \in get_private_ip_outcomes }
PublicIpLines ==
    { Line(<<colored("U+F0469", "green"), o[1]>>) :
        o \in get_public_ip_outcomes }

OutputLines == {output[i] : i \in DOMAIN output}

\* C3: in the rich variant each IP lookup is invoked only when its own flag
\* is set; without a flag its function is never called, no socket is opened
\* for it and no line of the output carries its label.
C3_LookupOnlyWhenFlagged ==
    variant = "rich" =>
        /\ ~args.show_private_ip =>
              /\ reads["private_ip"] = 0
              /\ sock = "none"
              /\ OutputLines \cap PrivateIpLines = {}
              /\ OutputLines \cap PrivateIpDiagnostics = {}
        /\ ~args.show_public_ip =>
              /\ reads["public_ip"] = 0
              /\ OutputLines \cap PublicIpLines = {}
              /\ OutputLines \cap PublicIpDiagnostics = {}

\* A finished run of the rich variant with neither flag.
C3_Witness ==
    /\ pc = "done"
    /\ variant = "rich"
    /\ ~args.show_private_ip
    /\ ~args.show_public_ip
    /\ Len(ReportLines) >= 8

\* The order the report promises.
FixedOrder ==
    <<"identity", "os", "cpu_name", "cpu_load", "temperature", "battery",
      "wm", "uptime", "ram", "disk", "private_ip", "public_ip", "legend">>

\* s is t with some elements left out.
RECURSIVE IsSubsequence(_, _)
IsSubsequence(s, t) ==
    IF s = <<>> THEN TRUE
    ELSE IF t = <<>> THEN FALSE
    ELSE IF Head(s) = Head(t) THEN IsSubsequence(Tail(s), Tail(t))
    ELSE IsSubsequence(s, Tail(t))

\* No logo of logo_dict, nor the fallback logo, is the label of another
\* entry of the rich report, whatever the color classes: the OS entry never
\* takes the place of another entry in the dict.
OsLogoIsNoOtherLabel ==
    \A i \in 0..Len(logo_dict) :
        LET logo == get_os_logo(IF i = 0 THEN "" ELSE logo_dict[i][1])
        IN  /\ logo # " "
            /\ \A glyph \in {"U+F415", "U+EC19", "U+F2C9", "U+F0084",
                             "U+F12A3", "U+F0A07", "U+F252", "U+E266",
                             "U+F0C7", "U+F0A69", "U+F0469"} :
                  \A color \in {"green", "yellow", "red", "blue", "magenta"} :
                      logo # colored(glyph, color)

\* C4: the lines of the rich report are a subsequence of the fixed order
\* identity, OS, CPU name, CPU load, temperature, battery, session manager,
\* uptime, memory, disk, private IP, public IP, legend; the identity line is
\* the first and the legend the last.
C4_FixedOrder ==
    /\ (pc = "done" /\ variant = "rich") =>
          /\ IsSubsequence(ReportLines,
                           [i \in DOMAIN FixedOrder |->
                               Line(rich_entry(FixedOrder[i], locals))])
          /\ ReportLines # <<>>
          /\ ReportLines[1] = Line(rich_entry("identity", locals))
          /\ ReportLines[Len(ReportLines)] =
                Line(rich_entry("legend", locals))
    /\ pc = "uptime" => OsLogoIsNoOtherLabel

\* A finished rich run that printed all thirteen entries.
C4_Witness ==
    /\ pc = "done"
    /\ variant = "rich"
    /\ Len(ReportLines) = Len(FixedOrder)

\* C5: no entry is deduplicated: in both variants every assembled entry
\* yields its own line with its own value, so the report has as many lines
\* as entries were assembled.
C5_NoDeduplication ==
    pc = "done" =>
        /\ Len(ReportLines) = Len(Assembled)
        /\ \A i \in DOMAIN Assembled : Printed(Assembled[i])

\* C6: when the private-IP lookup has returned, its socket is released,
\* on the success path and on every error path.
C6_SocketReleased == sock # "open"

\* C7: in one run of the rich variant no host facility is read more than
\* once, and the battery's percentage and plugged state come from one
\* reading (both present or both absent).
C7_EachCollectorReadsOnce ==
    variant = "rich" =>
        /\ \A c \in Collectors : reads[c] <= 1
        /\ pc = "done" => (locals.battery = None <=> locals.plugged = None)

\* C8: a usage percentage p is green iff p < 60, yellow iff 60 <= p < 80 and
\* red iff p >= 80, for CPU load, memory and disk alike; 60 is yellow and 80
\* is red.
C8_UsageClasses ==
    \A name \in {"cpu_usage_color", "disk_usage_color", "ram_usage_color"} :
        result[name] # Unbound =>
            /\ result[name] = "green" <=> arg < 60
            /\ result[name] = "yellow" <=> (60 <= arg /\ arg < 80)
            /\ result[name] = "red" <=> arg >= 80
            /\ arg = 60 => result[name] = "yellow"
            /\ arg = 80 => result[name] = "red"

\* The boundary 80 classified red for all three usage metrics.
C8_Witness ==
    /\ arg = 80
    /\ \A name \in {"cpu_usage_color", "disk_usage_color", "ram_usage_color"} :
          result[name] = "red"

\* C9: a temperature t is green iff t < 60, yellow iff 60 <= t < 70 and red
\* iff t >= 70; a value in [70, 80) is red as a temperature and yellow as a
\* usage percentage.
C9_TemperatureClasses ==
    result["temp_color"] # Unbound =>
        /\ result["temp_color"] = "green" <=> arg < 60
        /\ result["temp_color"] = "yellow" <=> (60 <= arg /\ arg < 70)
        /\ result["temp_color"] = "red" <=> arg >= 70
        /\ (70 <= arg /\ arg < 80 /\ result["cpu_usage_color"] # Unbound) =>
              /\ result["temp_color"] = "red"
              /\ result["cpu_usage_color"] = "yellow"

\* The boundary 70: red as a temperature, yellow as a usage percentage.
C9_Witness ==
    /\ arg = 70
    /\ result["temp_color"] = "red"
    /\ result["cpu_usage_color"] = "yellow"

\* C10: for s elapsed seconds both variants report h hours and m minutes
\* with 0 <= m <= 59 and 3600*h + 60*m <= s < 3600*h + 60*m + 60, and
\* 3 h 45 min 10 s reads "3 hrs, 45 mins".
C10_UptimeTruncates ==
    \A v \in {"rich", "minimal"} :
        result[v].str # Unbound =>
            LET h == result[v].hours
                m == result[v].minutes
            IN  /\ h >= 0
                /\ 0 <= m /\ m <= 59
                /\ 3600 * h + 60 * m <= arg
                /\ arg < 3600 * h + 60 * m + 60
                /\ result[v].str =
                      ToString(h) \o " hrs, " \o ToString(m) \o " mins"
                /\ arg = 13510 => result[v].str = "3 hrs, 45 mins"
                /\ result["rich"].str # Unbound /\ result["minimal"].str # Unbound
                      => result["rich"] = result["minimal"]

\* 3 h 45 min 10 s formatted by both variants.
C10_Witness ==
    /\ arg = 13510
    /\ result["rich"].str = "3 hrs, 45 mins"
    /\ result["minimal"].str = "3 hrs, 45 mins"

====
